---- MODULE Spec2Model ----
(***************************************************************************)
(* TokenBureau: the token-issuance endpoint (packages/server/index.js) and *)
(* the permission policy resolver (packages/server/config.js).             *)
(*                                                                         *)
(* Strings that the code takes apart (the Authorization header, the       *)
(* repository claim, owner names) are sequences of one-character strings, *)
(* so that startsWith, split, trim, replace and toLowerCase are computed  *)
(* as the code computes them.                                              *)
(***************************************************************************)
EXTENDS Integers, Sequences, FiniteSets, TLC

(***************************************************************************)
(* Bounds of the model.                                                    *)
(***************************************************************************)
\* number of requests the server handles (interleaved at their await points)
NumReqs == 1
\* the raw bearer tokens offered have 0..MaxSegs dot-separated segments
MaxSegs == 4
\* repository ids the repository lookup may return: 1..MaxRepoId
MaxRepoId == 2
\* number of callers of the policy module (interleaved at their await points)
NumCallers == 2
\* requests handled at the same time
NumConcurrent == 2

Reqs == 1..NumReqs
Callers == 1..NumCallers
Concurrent == 1..NumConcurrent

(***************************************************************************)
(* String primitives (JavaScript semantics on character sequences).        *)
(***************************************************************************)
DQ == "\""
SQ == "'"

\* String.prototype.startsWith
StartsWith(s, p) ==
  /\ Len(s) >= Len(p)
  /\ SubSeq(s, 1, Len(p)) = p

\* String.prototype.includes for a one-character needle
Includes(s, c) == \E i \in 1..Len(s) : s[i] = c

\* index of the first occurrence of c in s at or after position i, 0 if none
IndexFrom(s, c, i) ==
  IF \E j \in i..Len(s) : s[j] = c
  THEN CHOOSE j \in i..Len(s) : s[j] = c /\ \A k \in i..(j - 1) : s[k] # c
  ELSE 0

\* the positions of the separator in s, and the position of the m-th of them
\* (0 for m = 0, Len(s) + 1 past the last)
SepPositions(s, sep) == {j \in 1..Len(s) : s[j] = sep}

SepPosition(s, sep, m) ==
  IF m = 0 THEN 0
  ELSE IF m > Cardinality(SepPositions(s, sep)) THEN Len(s) + 1
  ELSE CHOOSE j \in SepPositions(s, sep) :
         Cardinality({x \in SepPositions(s, sep) : x <= j}) = m

\* String.prototype.split for a one-character separator: the pieces between
\* the separators, always at least one
Split(s, sep) ==
  [k \in 1..(Cardinality(SepPositions(s, sep)) + 1) |->
     SubSeq(s, SepPosition(s, sep, k - 1) + 1, SepPosition(s, sep, k) - 1)]

\* String.prototype.trim (the only whitespace of the alphabet is the space)
Trim(s) ==
  LET kept == {j \in 1..Len(s) : s[j] # " "} IN
  IF kept = {} THEN << >>
  ELSE SubSeq(s, CHOOSE j \in kept : \A k \in kept : j <= k,
                 CHOOSE j \in kept : \A k \in kept : j >= k)

IsQuote(c) == c = DQ \/ c = SQ

\* s.replace(/^["']|["']$/g, ''): one leading quote and one trailing quote are
\* removed; a one-character string made of a quote loses it once
StripQuotes(s) ==
  LET lead == Len(s) > 0 /\ IsQuote(s[1])
      rest == IF lead THEN Tail(s) ELSE s
      trail == Len(rest) > 0 /\ IsQuote(rest[Len(rest)])
  IN IF trail THEN SubSeq(rest, 1, Len(rest) - 1) ELSE rest

\* String.prototype.toLowerCase on the letters of the alphabet
LowerChar(c) ==
  CASE c = "A" -> "a"
    [] c = "O" -> "o"
    [] c = "W" -> "w"
    [] OTHER -> c

ToLowerCase(s) == [i \in 1..Len(s) |-> LowerChar(s[i])]

(***************************************************************************)
(* JSON.parse on the texts a bearer value can be here: no whitespace (the  *)
(* value is one piece of split(' ')), and one of                           *)
(*   "chars"            a JSON string                                      *)
(*   digit              a JSON number                                      *)
(*   {"key":"chars"}    an object with one string member                   *)
(*   {"key":digit}      an object with one number member                   *)
(* Every other text of the alphabet is a SyntaxError.  The result tells    *)
(* what the code reads from it: whether parsing threw, and parsed.value.   *)
(***************************************************************************)
Digits == {"0", "1", "2", "3", "4", "5", "6", "7", "8", "9"}

IsJsonNumber(s) == Len(s) = 1 /\ s[1] \in Digits

IsJsonString(s) ==
  /\ Len(s) >= 2
  /\ s[1] = DQ
  /\ s[Len(s)] = DQ
  /\ \A i \in 2..(Len(s) - 1) : s[i] # DQ /\ s[i] # "\\"

\* the characters between the quotes of a JSON string
JsonStringValue(s) == SubSeq(s, 2, Len(s) - 1)

\* position of the quote closing the member key of {"key":...}, 0 if none
JsonKeyEnd(s) ==
  IF Len(s) >= 3 /\ s[1] = "{" /\ s[2] = DQ THEN IndexFrom(s, DQ, 3) ELSE 0

JsonMemberText(s) == SubSeq(s, JsonKeyEnd(s) + 2, Len(s) - 1)

IsJsonObject(s) ==
  LET e == JsonKeyEnd(s) IN
  /\ e # 0
  /\ Len(s) >= e + 3
  /\ s[e + 1] = ":"
  /\ s[Len(s)] = "}"
  /\ (IsJsonString(JsonMemberText(s)) \/ IsJsonNumber(JsonMemberText(s)))

JsonKey(s) == SubSeq(s, 3, JsonKeyEnd(s) - 1)

\* [threw, hasValue: parsed.value is truthy, isString: it is a string, value]
JsonParse(s) ==
  IF IsJsonObject(s) /\ JsonKey(s) = << "v", "a", "l", "u", "e" >> THEN
    LET m == JsonMemberText(s) IN
    IF IsJsonString(m)
    THEN [threw |-> FALSE, hasValue |-> Len(JsonStringValue(m)) > 0,
          isString |-> TRUE, value |-> JsonStringValue(m)]
    ELSE [threw |-> FALSE, hasValue |-> m # << "0" >>,
          isString |-> FALSE, value |-> m]
  ELSE IF IsJsonObject(s) \/ IsJsonString(s) \/ IsJsonNumber(s) THEN
    [threw |-> FALSE, hasValue |-> FALSE, isString |-> FALSE, value |-> << >>]
  ELSE
    [threw |-> TRUE, hasValue |-> FALSE, isString |-> FALSE, value |-> << >>]

(***************************************************************************)
(* extractAndDecodeToken: [ok, token] where ok = FALSE stands for a throw. *)
(* A header is [present, text]; present = FALSE is the absent header.      *)
(***************************************************************************)
BearerPrefix == << "B", "e", "a", "r", "e", "r", " " >>

\* faulty variant of InvalidJwtFormat: only too few parts are refused
InvalidJwtFormatTooFew(tokenPayload) == Len(Split(tokenPayload, ".")) < 3

\* lines 199-200: parts.length !== 3
InvalidJwtFormat(tokenPayload) == Len(Split(tokenPayload, ".")) # 3

Throw(message) == [ok |-> FALSE, token |-> << >>, error |-> message]

extractAndDecodeToken(authHeader) ==
  IF ~authHeader.present \/ ~StartsWith(authHeader.text, BearerPrefix)
  THEN Throw("Missing or invalid Authorization header")
  ELSE
    LET raw == Split(authHeader.text, " ")[2]
        parsed == JsonParse(raw)
        unwrapped == IF ~parsed.threw /\ parsed.hasValue THEN parsed.value ELSE raw
    IN
    \* a truthy non-string value: tokenPayload.trim is not a function, a TypeError
    IF ~parsed.threw /\ parsed.hasValue /\ ~parsed.isString
    THEN Throw("tokenPayload.trim is not a function")
    ELSE
      LET tokenPayload == StripQuotes(Trim(unwrapped)) IN
      IF InvalidJwtFormat(tokenPayload)
      THEN Throw("Invalid JWT format - token must have three parts")
      ELSE [ok |-> TRUE, token |-> tokenPayload, error |-> ""]

(***************************************************************************)
(* The permission policy (packages/server/config.js).  A permission map is *)
(* a function from permission names to access levels; a policy document is *)
(* [default |-> [permissions |-> map], repositories |-> keys -> [permis-   *)
(* sions |-> map]] with the keys "owner/repo" and "owner/*" as character   *)
(* sequences.                                                              *)
(***************************************************************************)
VALID_ACCESS_LEVELS == {"read", "write", "none"}

VALID_PERMISSIONS ==
  {"contents", "metadata", "issues", "pull_requests", "deployments", "packages",
   "actions", "security_events", "statuses", "checks", "discussions", "pages",
   "workflows"}

\* the empty permission map
EmptyPerms == [k \in {} |-> "none"]

\* { ...a, ...b }: per key, b's entry wins
Spread(a, b) ==
  [k \in DOMAIN a \cup DOMAIN b |-> IF k \in DOMAIN b THEN b[k] ELSE a[k]]

\* `${owner}/${repo}` and `${owner}/*`
RepoPath(owner, repo) == owner \o << "/" >> \o repo
\* faulty variant of OrgWildcard: the owner is put in lower case
OrgWildcardLower(owner) == ToLowerCase(owner) \o << "/", "*" >>

OrgWildcard(owner) == owner \o << "/", "*" >>

\* faulty variant of CeilingPermissions: a repository's entry replaces the
\* lower layers as a whole
CeilingPermissionsReplacing(config, owner, repo) ==
  IF RepoPath(owner, repo) \in DOMAIN config.repositories
  THEN config.repositories[RepoPath(owner, repo)].permissions
  ELSE IF OrgWildcard(owner) \in DOMAIN config.repositories
    THEN config.repositories[OrgWildcard(owner)].permissions
  ELSE config.default.permissions

\* lines 185-206: default, then the org-wide entry, then the repository's entry
CeilingPermissions(config, owner, repo) ==
  LET defaultPerms == config.default.permissions
      afterOrg ==
        IF OrgWildcard(owner) \in DOMAIN config.repositories
        THEN Spread(defaultPerms, config.repositories[OrgWildcard(owner)].permissions)
        ELSE defaultPerms
  IN IF RepoPath(owner, repo) \in DOMAIN config.repositories
     THEN Spread(afterOrg, config.repositories[RepoPath(owner, repo)].permissions)
     ELSE afterOrg

\* faulty variant of RequestedEntryError: a ceiling of 'none' is let through
RequestedEntryErrorNoneAllowed(effectivePerms, perm, level) ==
  IF perm \notin VALID_PERMISSIONS THEN "Invalid permission requested"
  ELSE IF level \notin VALID_ACCESS_LEVELS THEN "Invalid access level requested"
  ELSE IF perm \notin DOMAIN effectivePerms
    THEN "Permission is not allowed for this repository"
  ELSE IF level = "write" /\ effectivePerms[perm] = "read"
    THEN "Write access is not allowed for this repository"
  ELSE ""

\* faulty variant of RequestedEntryError: write is not compared with the ceiling
RequestedEntryErrorNoWriteCheck(effectivePerms, perm, level) ==
  IF perm \notin VALID_PERMISSIONS THEN "Invalid permission requested"
  ELSE IF level \notin VALID_ACCESS_LEVELS THEN "Invalid access level requested"
  ELSE IF perm \notin DOMAIN effectivePerms \/ effectivePerms[perm] = "none"
    THEN "Permission is not allowed for this repository"
  ELSE ""

\* lines 213-231: the error thrown for one requested entry, "" if it is accepted
RequestedEntryError(effectivePerms, perm, level) ==
  IF perm \notin VALID_PERMISSIONS THEN "Invalid permission requested"
  ELSE IF level \notin VALID_ACCESS_LEVELS THEN "Invalid access level requested"
  ELSE IF perm \notin DOMAIN effectivePerms \/ effectivePerms[perm] = "none"
    THEN "Permission is not allowed for this repository"
  ELSE IF level = "write" /\ effectivePerms[perm] = "read"
    THEN "Write access is not allowed for this repository"
  ELSE ""

\* faulty variant of ValidateRequested: an accepted permission is granted at the
\* ceiling's level
RECURSIVE ValidateRequestedGrantingCeiling(_, _, _)
ValidateRequestedGrantingCeiling(effectivePerms, entries, validatedPerms) ==
  IF entries = << >> THEN [ok |-> TRUE, perms |-> validatedPerms, error |-> ""]
  ELSE
    LET perm == entries[1][1]
        level == entries[1][2]
        err == RequestedEntryError(effectivePerms, perm, level)
    IN IF err # "" THEN [ok |-> FALSE, perms |-> EmptyPerms, error |-> err]
       ELSE ValidateRequestedGrantingCeiling(effectivePerms, Tail(entries),
              Spread(validatedPerms, [k \in {perm} |-> effectivePerms[perm]]))

\* faulty variant of ValidateRequested: an entry that fails is left out and
\* the loop goes on
RECURSIVE ValidateRequestedSkipping(_, _, _)
ValidateRequestedSkipping(effectivePerms, entries, validatedPerms) ==
  IF entries = << >> THEN [ok |-> TRUE, perms |-> validatedPerms, error |-> ""]
  ELSE
    LET perm == entries[1][1]
        level == entries[1][2]
        err == RequestedEntryError(effectivePerms, perm, level)
    IN IF err # ""
       THEN ValidateRequestedSkipping(effectivePerms, Tail(entries), validatedPerms)
       ELSE ValidateRequestedSkipping(effectivePerms, Tail(entries),
                                      Spread(validatedPerms, [k \in {perm} |-> level]))

\* lines 210-236: the loop over Object.entries(requestedPermissions); entries is
\* the sequence of << perm, level >> in the object's key order
RECURSIVE ValidateRequested(_, _, _)
ValidateRequested(effectivePerms, entries, validatedPerms) ==
  IF entries = << >> THEN [ok |-> TRUE, perms |-> validatedPerms, error |-> ""]
  ELSE
    LET perm == entries[1][1]
        level == entries[1][2]
        err == RequestedEntryError(effectivePerms, perm, level)
    IN IF err # "" THEN [ok |-> FALSE, perms |-> EmptyPerms, error |-> err]
       ELSE ValidateRequested(effectivePerms, Tail(entries),
                              Spread(validatedPerms, [k \in {perm} |-> level]))

\* faulty variant of WithoutNone: nothing is removed
WithoutNoneKept(perms) == perms

\* lines 240-242: the entries whose level is not 'none'
WithoutNone(perms) ==
  [k \in {p \in DOMAIN perms : perms[p] # "none"} |-> perms[k]]

\* requested is [given |-> FALSE] for null, else [given |-> TRUE, entries |-> seq]
NoRequested == [given |-> FALSE, entries |-> << >>]

\* faulty variant of getEffectivePermissions: the validated entries are laid
\* over the ceiling
getEffectivePermissionsOverCeiling(config, owner, repo, requestedPermissions) ==
  LET effectivePerms == CeilingPermissions(config, owner, repo)
      validated ==
        ValidateRequested(effectivePerms, requestedPermissions.entries, EmptyPerms)
  IN
  IF requestedPermissions.given
  THEN IF validated.ok
       THEN [validated EXCEPT !.perms = Spread(WithoutNone(effectivePerms), @)]
       ELSE validated
  ELSE [ok |-> TRUE, perms |-> WithoutNone(effectivePerms), error |-> ""]

getEffectivePermissions(config, owner, repo, requestedPermissions) ==
  LET effectivePerms == CeilingPermissions(config, owner, repo) IN
  IF requestedPermissions.given
  THEN ValidateRequested(effectivePerms, requestedPermissions.entries, EmptyPerms)
  ELSE [ok |-> TRUE, perms |-> WithoutNone(effectivePerms), error |-> ""]

\* configCache before any load: null
Null == [null |-> TRUE]

\* lines 137-144: what validatePermissions throws for one entry, "" if it passes
PermissionError(perm, level) ==
  IF perm \notin VALID_PERMISSIONS THEN "Invalid permission"
  ELSE IF level \notin VALID_ACCESS_LEVELS THEN "Invalid access level"
  ELSE ""

\* faulty variant of validatePermissions: the access levels are not looked at
validatePermissionsNamesOnly(permissions) ==
  IF DOMAIN permissions \subseteq VALID_PERMISSIONS THEN "" ELSE "Invalid permission"

\* lines 136-145: the message of the error thrown, "" if the map passes.  A map
\* of the model holds at most one entry that fails, so the order of
\* Object.entries among failing entries is not modelled.
validatePermissions(permissions) ==
  LET failing ==
        {perm \in DOMAIN permissions : PermissionError(perm, permissions[perm]) # ""}
  IN IF failing = {} THEN ""
     ELSE LET perm == CHOOSE p \in failing : TRUE
          IN PermissionError(perm, permissions[perm])

\* line 160: !config.default?.permissions
DefaultPermissionsMissing(config) ==
  \/ "default" \notin DOMAIN config
  \/ "permissions" \notin DOMAIN config.default

\* lines 167-171: what the loop body throws for one repository entry
RepositoryError(repoConfig) ==
  IF "permissions" \notin DOMAIN repoConfig
  THEN "Permissions must be defined for repository"
  ELSE validatePermissions(repoConfig.permissions)

\* lines 159-173: the message of the error thrown in the try block for a parsed
\* document, "" if there is none.  At most one repository entry of a document
\* of the model fails.
ValidationError(config) ==
  IF DefaultPermissionsMissing(config) THEN "Default permissions must be defined"
  ELSE IF validatePermissions(config.default.permissions) # ""
    THEN validatePermissions(config.default.permissions)
  ELSE
    LET failing ==
          IF "repositories" \notin DOMAIN config THEN {}
          ELSE {key \in DOMAIN config.repositories :
                  RepositoryError(config.repositories[key]) # ""}
    IN IF failing = {} THEN ""
       ELSE RepositoryError(config.repositories[CHOOSE key \in failing : TRUE])

\* lines 178-180: the error loadPermissionsConfig rejects with
LoadFailure(message) ==
  [message |-> "Failed to load permissions config", cause |-> message]

(***************************************************************************)
(* The inputs of the model: headers, verified claims, upstream answers,    *)
(* policy documents.                                                       *)
(***************************************************************************)
acme == << "a", "c", "m", "e" >>
octo == << "o", "c", "t", "o" >>
widgets == << "w" >>
gadgets == << "g" >>

\* a compact token of k segments: "h.p.s", then "x" for every further segment
RECURSIVE Token(_)
Token(k) ==
  IF k = 0 THEN << >>
  ELSE IF k = 1 THEN << "h" >>
  ELSE Token(k - 1) \o << ".", (IF k = 2 THEN "p" ELSE IF k = 3 THEN "s" ELSE "x") >>

Quoted(q, s) == << q >> \o s \o << q >>

\* {"<key>":<member>}
JsonObject(key, member) == << "{" >> \o Quoted(DQ, key) \o << ":" >> \o member \o << "}" >>

\* {"<key>": <member>}, with a space after the colon
JsonObjectSpaced(key, member) ==
  << "{" >> \o Quoted(DQ, key) \o << ":", " " >> \o member \o << "}" >>

Present(text) == [present |-> TRUE, text |-> text]

Headers ==
  { [present |-> FALSE, text |-> << >>],
    Present(<< "B", "a", "s", "i", "c", " " >> \o Token(3)),
    Present(BearerPrefix \o Quoted(DQ, Token(3))),
    Present(BearerPrefix \o JsonObject(<< "v", "a", "l", "u", "e" >>, Quoted(DQ, Token(3)))),
    Present(BearerPrefix \o JsonObject(<< "v", "a", "l", "u", "e" >>, Quoted(DQ, Token(2)))),
    Present(BearerPrefix \o JsonObject(<< "v", "a", "l", "u", "e" >>, << "5" >>)),
    Present(BearerPrefix
              \o JsonObjectSpaced(<< "v", "a", "l", "u", "e" >>, Quoted(DQ, Token(3)))),
    Present(BearerPrefix \o Token(3) \o << " ", "x" >>) }
  \cup { Present(BearerPrefix \o Token(k)) : k \in 0..MaxSegs }

\* what jwt.verify hands to its callback: an error, or the decoded claims.  An
\* absent claim and an empty one are both falsy; both are the empty sequence.
VerifyErrors ==
  {"invalid signature", "jwt issuer invalid", "jwt audience invalid", "jwt expired"}

DecodedClaims ==
  { [repository |-> RepoPath(acme, widgets), repository_owner |-> acme],
    [repository |-> gadgets, repository_owner |-> acme],
    [repository |-> RepoPath(acme, widgets), repository_owner |-> octo],
    [repository |-> << >>, repository_owner |-> acme],
    [repository |-> RepoPath(acme, widgets), repository_owner |-> << >>] }

Installation(id, login) == [id |-> id, account |-> [login |-> login]]

\* answers of GET /app/installations
InstallationLists ==
  { << >>,
    << Installation(1, octo) >>,
    << Installation(1, octo), Installation(2, << "A", "c", "m", "e" >>) >>,
    << Installation(1, octo), Installation(2, << "A", "c", "m", "e" >>),
       Installation(3, acme) >> }

\* an upstream call that fails: the RequestError's status and message
UpstreamErrors ==
  { [status |-> 404, message |-> "Not Found"],
    [status |-> 500, message |-> "Server Error"] }

\* what installationAuth({type: "installation", ...}) resolves to; "" is no token
MintResults ==
  { [token |-> "ghs_token", expiresAt |-> "expiry"],
    [token |-> "", expiresAt |-> "expiry"] }

Perms(contents, metadata) ==
  [k \in {"contents", "metadata"} |-> IF k = "contents" THEN contents ELSE metadata]

\* config/permissions.yml as deployed: valid policy documents
Policies ==
  { [default |-> [permissions |-> Perms("write", "read")],
     repositories |-> [k \in {} |-> [permissions |-> EmptyPerms]]],
    [default |-> [permissions |-> Perms("read", "read")],
     repositories |->
       [k \in {OrgWildcard(acme)} |-> [permissions |-> [p \in {"issues"} |-> "write"]]]] }

NoRepositories == [k \in {} |-> [permissions |-> EmptyPerms]]

Perms3(contents, metadata, issues) ==
  [k \in {"contents", "metadata", "issues"} |->
     IF k = "contents" THEN contents ELSE IF k = "metadata" THEN metadata ELSE issues]

\* a policy with an org-wide and a repository entry for acme
LayeredPolicy ==
  [default |-> [permissions |-> Perms3("read", "read", "none")],
   repositories |->
     [k \in {OrgWildcard(acme), RepoPath(acme, widgets)} |->
        IF k = OrgWildcard(acme)
        THEN [permissions |-> [p \in {"contents", "issues"} |->
                                 IF p = "contents" THEN "none" ELSE "read"]]
        ELSE [permissions |-> [p \in {"contents"} |-> "write"]]]]

\* documents the load accepts
ValidDocuments == Policies \cup {LayeredPolicy}

\* documents the load rejects, one for each rule of lines 136-145 and 159-173
InvalidDocuments ==
  { [repositories |-> NoRepositories],
    [default |-> [permission |-> Perms("write", "read")],
     repositories |-> NoRepositories],
    [default |-> [permissions |-> Perms("write", "read")],
     repositories |->
       [k \in {RepoPath(acme, widgets)} |-> [permission |-> Perms("write", "read")]]],
    [default |-> [permissions |-> [p \in {"contents", "admin"} |-> "read"]],
     repositories |-> NoRepositories],
    [default |-> [permissions |-> Perms("admin", "read")],
     repositories |-> NoRepositories],
    [default |-> [permissions |-> Perms("write", "read")],
     repositories |->
       [k \in {OrgWildcard(acme)} |-> [permissions |-> [p \in {"issues"} |-> "owner"]]]] }

\* what config/permissions.yml may hold when the policy module is called
PolicyDocuments == ValidDocuments \cup InvalidDocuments

\* the (owner, repo) pairs the resolver is called with
Repositories ==
  { << acme, widgets >>, << acme, gadgets >>, << octo, widgets >>,
    << << "A", "c", "m", "e" >>, widgets >>,
    << acme, << "W", "i", "d", "g", "e", "t", "s" >> >> }

Requested(entries) == [given |-> TRUE, entries |-> entries]

\* the requested maps the resolver is called with: none, the empty map, maps
\* of one entry and maps of two entries
RequestedMaps ==
  { NoRequested,
    Requested(<< >>),
    Requested(<< << "contents", "read" >> >>),
    Requested(<< << "contents", "write" >> >>),
    Requested(<< << "contents", "none" >> >>),
    Requested(<< << "issues", "read" >> >>),
    Requested(<< << "issues", "write" >> >>),
    Requested(<< << "issues", "none" >> >>),
    Requested(<< << "admin", "read" >> >>),
    Requested(<< << "contents", "admin" >> >>),
    Requested(<< << "admin", "admin" >> >>),
    Requested(<< << "contents", "read" >>, << "issues", "admin" >> >>),
    Requested(<< << "contents", "read" >>, << "metadata", "read" >> >>),
    Requested(<< << "contents", "read" >>, << "metadata", "write" >> >>),
    Requested(<< << "contents", "write" >>, << "issues", "read" >> >>),
    Requested(<< << "issues", "read" >>, << "contents", "write" >> >>) }

(***************************************************************************)
(* The issuance endpoint.  One request is one run of the POST handler; it  *)
(* gives up control at its four outbound calls, and the code between two   *)
(* of them is one action.                                                  *)
(***************************************************************************)
VARIABLES
  pc,              \* per request: where its handler stands
  authHeader,      \* per request: req.headers.authorization
  tokenPayload,    \* per request: the compact token extractAndDecodeToken returned
  verifyErr,       \* per request: err of jwt.verify's callback ("null" for none)
  decoded,         \* per request: the claims jwt.verify handed over
  attemptNumber,   \* per request: pRetry's attempt counter
  installation,    \* per request: generateToken's installation
  repo,            \* per request: generateToken's repo (the lookup's data)
  calls,           \* per request: its outbound calls in order, each with its result
  hung,            \* per request: its pending outbound call will never return
  response,        \* per request: the response sent, [status |-> 0] before
  permissionsFile, \* config/permissions.yml
  configCache,     \* config.js: the module's configCache
  callPc,          \* per caller of the policy module: where its call stands
  callOp,          \* per caller: the exported function it called
  config,          \* per caller: loadPermissionsConfig's config (the parsed file)
  loaded,          \* per caller: how its loadPermissionsConfig() settled
  loadLog,         \* per caller: what its loadPermissionsConfig() did, in order
  effective        \* the getEffectivePermissions call that returned last

endpointVars ==
  << pc, authHeader, tokenPayload, verifyErr, decoded, attemptNumber, installation,
     repo, calls, hung, response >>

policyVars == << configCache, callPc, callOp, config, loaded, loadLog, effective >>

vars == << endpointVars, permissionsFile, policyVars >>

NoHeader == [present |-> FALSE, text |-> << >>]
NoClaims == [repository |-> << >>, repository_owner |-> << >>]
NoInstallation == Installation(0, << >>)
NoRepo == [id |-> 0]
NoResponse == [status |-> 0]

Awaiting == {"AwaitKey", "AwaitInstallations", "AwaitRepo", "AwaitToken"}
Terminal == {"Issued", "Rejected"}

\* the result of an outbound call: pending, then a value or an error
Pending == [state |-> "pending"]
Resolved(data) == [state |-> "ok", data |-> data]
Failed(error) == [state |-> "error", error |-> error]

\* the call log with the result of its last (the pending) call filled in
Returned(log, result) == [log EXCEPT ![Len(log)].result = result]

\* pRetry's retries option
Retries == 0

\* the permissions of the installation-token request
MintPermissions == Perms("write", "read")

\* faulty variant of RepoName: the part before the '/'
RepoNameFirstPart(repository) ==
  IF Includes(repository, "/") THEN Split(repository, "/")[1] ELSE repository

\* line 62
RepoName(repository) ==
  IF Includes(repository, "/") THEN Split(repository, "/")[2] ELSE repository

\* faulty variant of FindInstallation: the first installation, whoever owns it
FindInstallationAny(installations, owner) ==
  IF installations = << >> THEN NoInstallation ELSE Head(installations)

\* faulty variant of FindInstallation: the logins are compared as they are
RECURSIVE FindInstallationExactCase(_, _)
FindInstallationExactCase(installations, owner) ==
  IF installations = << >> THEN NoInstallation
  ELSE IF Head(installations).account.login = owner THEN Head(installations)
  ELSE FindInstallationExactCase(Tail(installations), owner)

\* lines 91-93: Array.prototype.find, NoInstallation for undefined
RECURSIVE FindInstallation(_, _)
FindInstallation(installations, owner) ==
  IF installations = << >> THEN NoInstallation
  ELSE IF ToLowerCase(Head(installations).account.login) = ToLowerCase(owner)
    THEN Head(installations)
  ELSE FindInstallation(Tail(installations), owner)

\* faulty variant of RepoCatchMessage: a 404 is rethrown like any other error
RepoCatchMessageRethrow(error) == error.message

\* lines 155-160: the inner catch of generateToken
RepoCatchMessage(error) ==
  IF error.status = 404 THEN "Repository not found" ELSE error.message

\* lines 281-284
DecodeFailedResponse(message) ==
  [status |-> 400, error |-> "Failed to decode token", details |-> message]

\* faulty variant of VerificationFailedResponse: answered as a server error
VerificationFailedResponse500(message) ==
  [status |-> 500, error |-> "Token verification failed", details |-> message]

\* lines 235-238
VerificationFailedResponse(message) ==
  [status |-> 403, error |-> "Token verification failed", details |-> message]

\* faulty variant of MissingClaimsResponse: answered like an undecodable token
MissingClaimsResponseAsDecode(claims) ==
  [status |-> 400, error |-> "Failed to decode token", claims |-> claims]

\* lines 248-251
MissingClaimsResponse(claims) ==
  [status |-> 400, error |-> "Missing repository information in token",
   claims |-> claims]

\* lines 273-276
GenerateFailedResponse(message) ==
  [status |-> 500, error |-> "Failed to generate token", details |-> message]

\* faulty variant of IssuedResponse: the expiry is left out
IssuedResponseNoExpiry(minted, inst) ==
  [status |-> 200, token |-> minted.token, installation_id |-> inst.id]

\* lines 150-154, 270: res.json(result)
IssuedResponse(minted, inst) ==
  [status |-> 200, token |-> minted.token, expires_at |-> minted.expiresAt,
   installation_id |-> inst.id]

\* no getEffectivePermissions call has returned yet
NoEffective == [returned |-> FALSE]

\* none of the requests has arrived: each request has its own handler
\* invocation, with its own locals
NoneArrived(requests) ==
  /\ pc = [r \in requests |-> "Idle"]
  /\ authHeader = [r \in requests |-> NoHeader]
  /\ tokenPayload = [r \in requests |-> << >>]
  /\ verifyErr = [r \in requests |-> "pending"]
  /\ decoded = [r \in requests |-> NoClaims]
  /\ attemptNumber = [r \in requests |-> 0]
  /\ installation = [r \in requests |-> NoInstallation]
  /\ repo = [r \in requests |-> NoRepo]
  /\ calls = [r \in requests |-> << >>]
  /\ hung = [r \in requests |-> FALSE]
  /\ response = [r \in requests |-> NoResponse]

\* no request has arrived
EndpointIdle == NoneArrived(Reqs)

\* line 117 and the policy module before any call
PolicyIdle ==
  /\ configCache = Null
  /\ callPc = [c \in Callers |-> "Idle"]
  /\ callOp = [c \in Callers |-> "none"]
  /\ config = [c \in Callers |-> Null]
  /\ loaded = [c \in Callers |-> Pending]
  /\ loadLog = [c \in Callers |-> << >>]
  /\ effective = NoEffective

Init ==
  /\ EndpointIdle
  /\ permissionsFile \in Policies
  /\ PolicyIdle

\* faulty variant of Send: the handler goes on after it has answered
SendAndGoOn(r, state, body) ==
  /\ pc' = pc
  /\ response' = [response EXCEPT ![r] = body]

\* res.status(s).json(body) and the end of the handler
Send(r, state, body) ==
  /\ pc' = [pc EXCEPT ![r] = state]
  /\ response' = [response EXCEPT ![r] = body]

\* lines 60-84: generateToken up to its first await; log is the call log so far
StartGenerateToken(r, log) ==
  /\ attemptNumber' = [attemptNumber EXCEPT ![r] = @ + 1]
  /\ installation' = [installation EXCEPT ![r] = NoInstallation]
  /\ repo' = [repo EXCEPT ![r] = NoRepo]
  /\ calls' = [calls EXCEPT ![r] =
       Append(log, [op |-> "listInstallations", result |-> Pending])]
  /\ pc' = [pc EXCEPT ![r] = "AwaitInstallations"]
  /\ UNCHANGED response

\* faulty variant of GenerateTokenThrows: pRetry is left one retry
GenerateTokenThrowsRetrying(r, log, message) ==
  IF attemptNumber[r] <= Retries + 1
  THEN StartGenerateToken(r, log)
  ELSE /\ Send(r, "Rejected", GenerateFailedResponse(message))
       /\ calls' = [calls EXCEPT ![r] = log]
       /\ UNCHANGED << attemptNumber, installation, repo >>

\* lines 161-172, 256-277: generateToken throws; pRetry runs it again while
\* attempts are left, else the handler answers 500
GenerateTokenThrows(r, log, message) ==
  IF attemptNumber[r] <= Retries
  THEN StartGenerateToken(r, log)
  ELSE /\ Send(r, "Rejected", GenerateFailedResponse(message))
       /\ calls' = [calls EXCEPT ![r] = log]
       /\ UNCHANGED << attemptNumber, installation, repo >>

\* lines 18-37: a request reaches the route with its Authorization header
Arrive(r) ==
  /\ pc[r] = "Idle"
  /\ \E h \in Headers : authHeader' = [authHeader EXCEPT ![r] = h]
  /\ pc' = [pc EXCEPT ![r] = "Received"]
  /\ UNCHANGED << tokenPayload, verifyErr, decoded, attemptNumber, installation,
                  repo, calls, hung, response, permissionsFile,
                  policyVars >>

\* lines 208-232, 279-286: the handler up to jwt.verify's key request
PostGenerateToken(r) ==
  /\ pc[r] = "Received"
  /\ LET extracted == extractAndDecodeToken(authHeader[r]) IN
     IF ~extracted.ok
     THEN /\ Send(r, "Rejected", DecodeFailedResponse(extracted.error))
          /\ UNCHANGED << tokenPayload, verifyErr, calls >>
     ELSE /\ tokenPayload' = [tokenPayload EXCEPT ![r] = extracted.token]
          /\ \/ \* jwt.verify cannot decode the token: its callback gets the error
                /\ verifyErr' = [verifyErr EXCEPT ![r] = "jwt malformed"]
                /\ Send(r, "Rejected", VerificationFailedResponse("jwt malformed"))
                /\ UNCHANGED calls
             \/ \* jwt.verify asks getKey for the signing key
                /\ calls' = [calls EXCEPT ![r] =
                     Append(@, [op |-> "getSigningKey", result |-> Pending])]
                /\ pc' = [pc EXCEPT ![r] = "AwaitKey"]
                /\ UNCHANGED << verifyErr, response >>
  /\ UNCHANGED << authHeader, decoded, attemptNumber, installation, repo, hung,
                  permissionsFile,
                  policyVars >>

\* lines 50-57, 232-257: the key request returns, jwt.verify calls back
KeyReturned(r) ==
  /\ pc[r] = "AwaitKey"
  /\ ~hung[r]
  /\ \/ \* the key request failed
        LET err == "error in secret or public key callback" IN
        /\ verifyErr' = [verifyErr EXCEPT ![r] = err]
        /\ calls' = [calls EXCEPT ![r] =
             Returned(@, Failed([status |-> 500, message |-> "Server Error"]))]
        /\ Send(r, "Rejected", VerificationFailedResponse(err))
        /\ UNCHANGED << decoded, attemptNumber, installation, repo >>
     \/ \* signature, expiry, audience or issuer does not verify
        \E err \in VerifyErrors :
          /\ verifyErr' = [verifyErr EXCEPT ![r] = err]
          /\ calls' = [calls EXCEPT ![r] = Returned(@, Resolved("key"))]
          /\ Send(r, "Rejected", VerificationFailedResponse(err))
          /\ UNCHANGED << decoded, attemptNumber, installation, repo >>
     \/ \* the token verifies
        \E d \in DecodedClaims :
          /\ verifyErr' = [verifyErr EXCEPT ![r] = "null"]
          /\ decoded' = [decoded EXCEPT ![r] = d]
          /\ IF d.repository = << >> \/ d.repository_owner = << >>
             THEN /\ Send(r, "Rejected", MissingClaimsResponse(d))
                  /\ calls' = [calls EXCEPT ![r] = Returned(@, Resolved("key"))]
                  /\ UNCHANGED << attemptNumber, installation, repo >>
             ELSE StartGenerateToken(r, Returned(calls[r], Resolved("key")))
  /\ UNCHANGED << authHeader, tokenPayload, hung, permissionsFile,
                  policyVars >>

\* faulty variant of StoreInstallation: the installation found is kept in a
\* variable of the module, which every request in flight reads
StoreInstallationShared(r, found) ==
  installation' = [q \in DOMAIN installation |-> found]

\* lines 91-93: const installation, a local of this call of generateToken
StoreInstallation(r, found) ==
  installation' = [installation EXCEPT ![r] = found]

\* lines 84-126: the installation listing returns
InstallationsReturned(r) ==
  /\ pc[r] = "AwaitInstallations"
  /\ ~hung[r]
  /\ \/ \E error \in UpstreamErrors :
          GenerateTokenThrows(r, Returned(calls[r], Failed(error)), error.message)
     \/ \E installations \in InstallationLists :
          LET found == FindInstallation(installations, decoded[r].repository_owner)
              log == Returned(calls[r], Resolved(installations))
          IN
          IF found = NoInstallation
          THEN GenerateTokenThrows(r, log, "No installation found for owner")
          ELSE /\ StoreInstallation(r, found)
               /\ calls' = [calls EXCEPT ![r] =
                    Append(log, [op |-> "getRepo", result |-> Pending,
                                 installationId |-> found.id,
                                 owner |-> decoded[r].repository_owner,
                                 repo |-> RepoName(decoded[r].repository)])]
               /\ pc' = [pc EXCEPT ![r] = "AwaitRepo"]
               /\ UNCHANGED << attemptNumber, repo, response >>
  /\ UNCHANGED << authHeader, tokenPayload, verifyErr, decoded, hung, permissionsFile,
                  policyVars >>

\* lines 123-142, 155-160: the repository lookup returns
RepoReturned(r) ==
  /\ pc[r] = "AwaitRepo"
  /\ ~hung[r]
  /\ \/ \E error \in UpstreamErrors :
          GenerateTokenThrows(r, Returned(calls[r], Failed(error)),
                              RepoCatchMessage(error))
     \/ \E id \in 1..MaxRepoId :
          /\ repo' = [repo EXCEPT ![r] = [id |-> id]]
          /\ calls' = [calls EXCEPT ![r] =
               Append(Returned(@, Resolved([id |-> id])),
                      [op |-> "createInstallationToken", result |-> Pending,
                       installationId |-> installation[r].id,
                       repositoryIds |-> << id >>,
                       permissions |-> MintPermissions])]
          /\ pc' = [pc EXCEPT ![r] = "AwaitToken"]
          /\ UNCHANGED << attemptNumber, installation, response >>
  /\ UNCHANGED << authHeader, tokenPayload, verifyErr, decoded, hung, permissionsFile,
                  policyVars >>

\* faulty variant of NoToken: the token is not looked at
NoTokenIgnored(minted) == FALSE

\* line 144: !token
NoToken(minted) == minted.token = ""

\* lines 134-160, 269-277: the installation-token request returns
TokenReturned(r) ==
  /\ pc[r] = "AwaitToken"
  /\ ~hung[r]
  /\ \/ \E error \in UpstreamErrors :
          GenerateTokenThrows(r, Returned(calls[r], Failed(error)),
                              RepoCatchMessage(error))
     \/ \E minted \in MintResults :
          LET log == Returned(calls[r], Resolved(minted)) IN
          IF NoToken(minted)
          THEN GenerateTokenThrows(r, log, "Failed to generate installation token")
          ELSE /\ Send(r, "Issued", IssuedResponse(minted, installation[r]))
               /\ calls' = [calls EXCEPT ![r] = log]
               /\ UNCHANGED << attemptNumber, installation, repo >>
  /\ UNCHANGED << authHeader, tokenPayload, verifyErr, decoded, hung, permissionsFile,
                  policyVars >>

\* no outbound call is given a timeout: the upstream may never answer, and
\* then nothing resumes the handler
UpstreamHangs(r) ==
  /\ pc[r] \in Awaiting
  /\ ~hung[r]
  /\ hung' = [hung EXCEPT ![r] = TRUE]
  /\ UNCHANGED << pc, authHeader, tokenPayload, verifyErr, decoded, attemptNumber,
                  installation, repo, calls, response, permissionsFile,
                  policyVars >>

Next ==
  \E r \in Reqs :
    \/ Arrive(r)
    \/ PostGenerateToken(r)
    \/ KeyReturned(r)
    \/ InstallationsReturned(r)
    \/ RepoReturned(r)
    \/ TokenReturned(r)
    \/ UpstreamHangs(r)

Spec == Init /\ [][Next]_vars

\* The handler runs when a request has been received, and resumes when an
\* outbound call returns; a request may never arrive, and an upstream may hang.
\* PostGenerateToken(r) is enabled exactly when pc[r] = "Received" and always
\* leaves that position, so weak fairness of it is []<>(pc[r] # "Received").
FairSpec ==
  /\ Spec
  /\ \A r \in Reqs :
       /\ []<>(pc[r] # "Received")
       /\ WF_vars(KeyReturned(r))
       /\ WF_vars(InstallationsReturned(r))
       /\ WF_vars(RepoReturned(r))
       /\ WF_vars(TokenReturned(r))

(***************************************************************************)
(* Requests handled at the same time.  Express starts the handler for each  *)
(* request as it arrives, and a handler gives up control at each await, so  *)
(* the segments of the handlers of several requests interleave.  The inputs *)
(* of each request are drawn from the sets below.                           *)
(***************************************************************************)
ConcurrentHeaders == {NoHeader, Present(BearerPrefix \o Token(3))}

ConcurrentVerifyErrors == {"jwt expired"}

ConcurrentClaims ==
  { [repository |-> RepoPath(acme, widgets), repository_owner |-> acme],
    [repository |-> RepoPath(acme, widgets), repository_owner |-> octo] }

ConcurrentLists ==
  { << Installation(1, octo) >>,
    << Installation(1, octo), Installation(2, << "A", "c", "m", "e" >>) >> }

ConcurrentErrors == {[status |-> 404, message |-> "Not Found"]}

\* the inputs of every request are among those above
ConcurrentInputs ==
  \A r \in Concurrent :
    /\ authHeader[r] \in ConcurrentHeaders
    /\ verifyErr[r] \in VerifyErrors => verifyErr[r] \in ConcurrentVerifyErrors
    /\ decoded[r] \in ConcurrentClaims \cup {NoClaims}
    /\ \A i \in DOMAIN calls[r] :
         /\ calls[r][i].result.state = "error" =>
              calls[r][i].result.error \in ConcurrentErrors
         /\ (calls[r][i].op = "listInstallations" /\ calls[r][i].result.state = "ok") =>
              calls[r][i].result.data \in ConcurrentLists

ConcurrentInit ==
  /\ NoneArrived(Concurrent)
  /\ permissionsFile = LayeredPolicy
  /\ PolicyIdle

ConcurrentNext ==
  \E r \in Concurrent :
    \/ Arrive(r) /\ ConcurrentInputs'
    \/ PostGenerateToken(r) /\ ConcurrentInputs'
    \/ KeyReturned(r) /\ ConcurrentInputs'
    \/ InstallationsReturned(r) /\ ConcurrentInputs'
    \/ RepoReturned(r) /\ ConcurrentInputs'
    \/ TokenReturned(r) /\ ConcurrentInputs'
    \/ UpstreamHangs(r) /\ ConcurrentInputs'

ConcurrentSpec == ConcurrentInit /\ [][ConcurrentNext]_vars

(***************************************************************************)
(* The policy module (packages/server/config.js) and its callers.  A call  *)
(* of loadPermissionsConfig gives up control at the await of readFile and  *)
(* at the awaits of validatePermissions; getEffectivePermissions gives up  *)
(* control at its await of loadPermissionsConfig.  Every caller makes one  *)
(* call.                                                                   *)
(***************************************************************************)
\* the functions config.js exports
PolicyOps == {"loadPermissionsConfig", "getEffectivePermissions"}

\* faulty variant of CacheHit: the cache is never looked at
CacheHitNever == FALSE

\* line 149: if (configCache)
CacheHit == configCache # Null

\* faulty variant of CacheAfterLoad: the document is cached before it is checked
CacheAfterLoadUnchecked(cache, document, message) == document

\* lines 159-176: configCache after the try block ran on a parsed document;
\* message is what the block threw, "" if nothing
CacheAfterLoad(cache, document, message) ==
  IF message = "" THEN document ELSE cache

\* c's loadPermissionsConfig() settles
Settle(c, result) ==
  /\ loaded' = [loaded EXCEPT ![c] = result]
  /\ callPc' = [callPc EXCEPT ![c] = "Loaded"]

\* lines 147-156, 183-184: a caller calls loadPermissionsConfig, directly or
\* through getEffectivePermissions; the call runs up to the await of readFile
CallPolicy(c) ==
  /\ callPc[c] = "Idle"
  /\ \E op \in PolicyOps : callOp' = [callOp EXCEPT ![c] = op]
  /\ IF CacheHit
     THEN /\ Settle(c, Resolved(configCache))
          /\ loadLog' = [loadLog EXCEPT ![c] = << "cacheHit" >>]
     ELSE /\ callPc' = [callPc EXCEPT ![c] = "AwaitReadFile"]
          /\ loadLog' = [loadLog EXCEPT ![c] = << "cacheMiss" >>]
          /\ UNCHANGED loaded
  /\ UNCHANGED << endpointVars, permissionsFile, configCache, config, effective >>

\* lines 156-163: readFile returns; the document is parsed, default.permissions
\* is looked for and the validation of the permission maps begins
ReadFileReturned(c) ==
  /\ callPc[c] = "AwaitReadFile"
  /\ config' = [config EXCEPT ![c] = permissionsFile]
  /\ loadLog' = [loadLog EXCEPT ![c] = @ \o << "readFile", "validate" >>]
  /\ IF DefaultPermissionsMissing(permissionsFile)
     THEN Settle(c, Failed(LoadFailure("Default permissions must be defined")))
     ELSE /\ callPc' = [callPc EXCEPT ![c] = "AwaitValidate"]
          /\ UNCHANGED loaded
  /\ UNCHANGED << endpointVars, permissionsFile, configCache, callOp, effective >>

\* lines 163-180: the awaits of validatePermissions return, for the default map
\* and for every repository entry; the code between them reads the caller's
\* own config only, so it is one step with the assignment of line 176
ValidationReturned(c) ==
  /\ callPc[c] = "AwaitValidate"
  /\ LET message == ValidationError(config[c]) IN
     /\ configCache' = CacheAfterLoad(configCache, config[c], message)
     /\ IF message = ""
        THEN /\ Settle(c, Resolved(config[c]))
             /\ loadLog' = [loadLog EXCEPT ![c] = Append(@, "assign")]
        ELSE /\ Settle(c, Failed(LoadFailure(message)))
             /\ UNCHANGED loadLog
  /\ UNCHANGED << endpointVars, permissionsFile, callOp, config, effective >>

\* faulty variant of CacheAfterResolve: effectivePerms is the default map itself,
\* and the overrides are assigned into it
CacheAfterResolveAliased(cache, document, owner, repoName) ==
  [cache EXCEPT !.default.permissions = CeilingPermissions(document, owner, repoName)]

\* lines 185-242: the cached document after getEffectivePermissions ran on it.
\* effectivePerms and validatedPerms are new objects ({...defaultPerms}, {}),
\* and nothing is assigned to config or to a map inside it.
CacheAfterResolve(cache, document, owner, repoName) == cache

\* lines 184-242: getEffectivePermissions resumes with the settled load: it
\* rejects with the load's error, or resolves the permissions of its arguments
EffectivePermissionsResumes(c) ==
  /\ callPc[c] = "Loaded"
  /\ callOp[c] = "getEffectivePermissions"
  /\ \E repository \in Repositories, requestedPermissions \in RequestedMaps :
       /\ configCache' =
            IF loaded[c].state = "ok"
            THEN CacheAfterResolve(configCache, loaded[c].data, repository[1],
                                   repository[2])
            ELSE configCache
       /\ effective' =
         [returned |-> TRUE,
          caller |-> c,
          config |-> IF loaded[c].state = "ok" THEN loaded[c].data ELSE Null,
          owner |-> repository[1],
          repo |-> repository[2],
          requestedPermissions |-> requestedPermissions,
          result |->
            IF loaded[c].state = "ok"
            THEN getEffectivePermissions(loaded[c].data, repository[1],
                                         repository[2], requestedPermissions)
            ELSE [ok |-> FALSE, perms |-> EmptyPerms,
                  error |-> loaded[c].error.message]]
  /\ callPc' = [callPc EXCEPT ![c] = "Returned"]
  /\ UNCHANGED << endpointVars, permissionsFile, callOp, config, loaded, loadLog >>

PolicyInit ==
  /\ EndpointIdle
  /\ permissionsFile \in PolicyDocuments
  /\ PolicyIdle

PolicyNext ==
  \E c \in Callers :
    \/ CallPolicy(c)
    \/ ReadFileReturned(c)
    \/ ValidationReturned(c)
    \/ EffectivePermissionsResumes(c)

PolicySpec == PolicyInit /\ [][PolicyNext]_vars

(***************************************************************************)
(* Vocabulary of the properties.                                           *)
(***************************************************************************)
\* the positions in r's call log of its calls of one kind
CallsOf(r, op) == {i \in DOMAIN calls[r] : calls[r][i].op = op}

\* the caller-facing classification a response carries: its status, and for
\* 400 the error field, for 500 the details field
Kind(resp) ==
  CASE resp.status = 200 -> "Issued"
    [] resp.status = 403 -> "UntrustedToken"
    [] resp.status = 400 /\ resp.error = "Failed to decode token" -> "MalformedToken"
    [] resp.status = 400 /\ resp.error = "Missing repository information in token"
         -> "IncompleteClaims"
    [] resp.status = 500 /\ resp.details = "No installation found for owner"
         -> "InstallationNotFound"
    [] resp.status = 500 /\ resp.details = "Repository not found" -> "RepositoryNotFound"
    [] resp.status = 500 /\ resp.details = "Failed to generate installation token"
         -> "MintFailed"
    [] resp.status = 500 /\ resp.details = "Upstream timeout" -> "UpstreamTimeout"
    [] resp.status = 500 -> "UpstreamFailure"
    [] OTHER -> "None"

\* the states of the orchestrator a handler position belongs to, in order
Phase(p) ==
  CASE p = "Idle" -> 0
    [] p = "Received" -> 1
    [] p = "AwaitKey" -> 2           \* Verifying
    [] p = "AwaitInstallations" -> 3 \* Locating
    [] p = "Scoping" -> 4            \* the policy resolver is being consulted
    [] p = "AwaitRepo" -> 5          \* Minting: the repository lookup
    [] p = "AwaitToken" -> 5         \* Minting: the token request
    [] p = "Issued" -> 6
    [] p = "Rejected" -> 7

\* the name part of a repository claim: what follows its '/', or all of it
NameOfClaim(repository) ==
  LET i == IndexFrom(repository, "/", 1) IN
  IF i = 0 THEN repository ELSE SubSeq(repository, i + 1, Len(repository))

\* no installation of the list is the owner's, letter case aside
NoInstallationFor(installations, owner) ==
  \A i \in DOMAIN installations :
    ToLowerCase(installations[i].account.login) # ToLowerCase(owner)

\* the headers of the model that carry a three-segment token, as sent raw,
\* quoted, wrapped in {"value": ...}, or followed by a further word
WellFormedHeaders ==
  { Present(BearerPrefix \o Token(3)),
    Present(BearerPrefix \o Quoted(DQ, Token(3))),
    Present(BearerPrefix \o JsonObject(<< "v", "a", "l", "u", "e" >>, Quoted(DQ, Token(3)))),
    Present(BearerPrefix \o Token(3) \o << " ", "x" >>) }

(***************************************************************************)
(* C1.  For every request that ends in Issued, the permission map of its   *)
(* installation-token request is exactly the map the policy resolver       *)
(* computes for its verified owner and repository under the deployed       *)
(* policy.  The code sends a fixed map and never consults the resolver.    *)
(***************************************************************************)
C1_MintCarriesResolvedPermissions ==
  \A r \in Reqs :
    pc[r] = "Issued" =>
      \A i \in CallsOf(r, "createInstallationToken") :
        calls[r][i].permissions =
          getEffectivePermissions(permissionsFile, decoded[r].repository_owner,
                                  NameOfClaim(decoded[r].repository), NoRequested).perms

(***************************************************************************)
(* C2.  Every installation-token request names exactly one repository id,  *)
(* the one the repository lookup returned, and that lookup was made for    *)
(* the owner of the repository_owner claim and the name part of the        *)
(* repository claim.                                                       *)
(***************************************************************************)
C2_MintNamesLookedUpRepository ==
  \A r \in Reqs :
    \A i \in CallsOf(r, "createInstallationToken") :
      /\ Len(calls[r][i].repositoryIds) = 1
      /\ i > 1
      /\ calls[r][i - 1].op = "getRepo"
      /\ calls[r][i - 1].owner = decoded[r].repository_owner
      /\ calls[r][i - 1].repo = NameOfClaim(decoded[r].repository)
      /\ calls[r][i - 1].result.state = "ok"
      /\ calls[r][i].repositoryIds[1] = calls[r][i - 1].result.data.id

C2_Witness ==
  \E r \in Reqs :
    /\ pc[r] = "Issued"
    /\ decoded[r].repository = RepoPath(acme, widgets)
    /\ decoded[r].repository_owner = acme
    /\ CallsOf(r, "createInstallationToken") # {}

(***************************************************************************)
(* C3.  A request moves through Received, Verifying, Locating, Scoping,    *)
(* Minting, Issued in that order, skipping none and revisiting none, or to *)
(* Rejected from a state that is not terminal; Issued and Rejected are     *)
(* terminal.  The code goes from Locating to Minting: it has no Scoping.   *)
(***************************************************************************)
C3_StatesInOrder ==
  [][\A r \in Reqs :
       pc'[r] # pc[r] =>
         /\ pc[r] \notin Terminal
         /\ \/ pc'[r] = "Rejected"
            \/ Phase(pc'[r]) = Phase(pc[r]) + 1
            \/ (pc[r] = "AwaitRepo" /\ pc'[r] = "AwaitToken")]_vars

(***************************************************************************)
(* C4.  When the token verified and the installation listing returned no   *)
(* installation of the owner, the request is rejected with status 500 as   *)
(* InstallationNotFound, and it issues no repository lookup and no         *)
(* installation-token request.                                             *)
(***************************************************************************)
C4_Case(r) ==
  /\ verifyErr[r] = "null"
  /\ \E i \in CallsOf(r, "listInstallations") :
       /\ calls[r][i].result.state = "ok"
       /\ NoInstallationFor(calls[r][i].result.data, decoded[r].repository_owner)

C4_InstallationNotFound ==
  \A r \in Reqs :
    C4_Case(r) =>
      /\ pc[r] = "Rejected"
      /\ response[r].status = 500
      /\ Kind(response[r]) = "InstallationNotFound"
      /\ CallsOf(r, "getRepo") = {}
      /\ CallsOf(r, "createInstallationToken") = {}

C4_Witness ==
  \E r \in Reqs :
    /\ C4_Case(r)
    /\ decoded[r].repository_owner = acme
    /\ calls[r][Len(calls[r])].result.data = << Installation(1, octo) >>

(***************************************************************************)
(* C5.  When the repository lookup returned 404, the request is rejected   *)
(* with status 500 as RepositoryNotFound, and it issues no                 *)
(* installation-token request.                                             *)
(***************************************************************************)
C5_Case(r) ==
  \E i \in CallsOf(r, "getRepo") :
    /\ calls[r][i].result.state = "error"
    /\ calls[r][i].result.error.status = 404

C5_RepositoryNotFound ==
  \A r \in Reqs :
    C5_Case(r) =>
      /\ pc[r] = "Rejected"
      /\ response[r].status = 500
      /\ Kind(response[r]) = "RepositoryNotFound"
      /\ CallsOf(r, "createInstallationToken") = {}

C5_Witness ==
  \E r \in Reqs : C5_Case(r) /\ installation[r] # NoInstallation

(***************************************************************************)
(* C6.  A three-segment token that fails verification (signature, issuer,  *)
(* audience, expiry, or the key request) is rejected with status 403 as    *)
(* UntrustedToken, never 500, and the request issues no installation       *)
(* listing, no repository lookup and no installation-token request.        *)
(***************************************************************************)
C6_Case(r) ==
  /\ Len(Split(tokenPayload[r], ".")) = 3
  /\ verifyErr[r] \notin {"pending", "null"}

C6_UntrustedToken ==
  \A r \in Reqs :
    C6_Case(r) =>
      /\ pc[r] = "Rejected"
      /\ response[r].status = 403
      /\ Kind(response[r]) = "UntrustedToken"
      /\ CallsOf(r, "listInstallations") = {}
      /\ CallsOf(r, "getRepo") = {}
      /\ CallsOf(r, "createInstallationToken") = {}

C6_Witness ==
  \E r \in Reqs :
    /\ C6_Case(r)
    /\ verifyErr[r] = "jwt audience invalid"
    /\ CallsOf(r, "getSigningKey") # {}

(***************************************************************************)
(* C7.  A token that verifies but lacks the repository or the              *)
(* repository_owner claim is rejected with status 400 as IncompleteClaims, *)
(* which is not the classification of a malformed token, and the request   *)
(* issues no installation listing and no installation-token request.       *)
(***************************************************************************)
C7_Case(r) ==
  /\ verifyErr[r] = "null"
  /\ (decoded[r].repository = << >> \/ decoded[r].repository_owner = << >>)

C7_IncompleteClaims ==
  \A r \in Reqs :
    C7_Case(r) =>
      /\ pc[r] = "Rejected"
      /\ response[r].status = 400
      /\ Kind(response[r]) = "IncompleteClaims"
      /\ Kind(response[r]) #
           Kind(DecodeFailedResponse("Invalid JWT format - token must have three parts"))
      /\ CallsOf(r, "listInstallations") = {}
      /\ CallsOf(r, "createInstallationToken") = {}

C7_Witness ==
  \E r \in Reqs :
    /\ C7_Case(r)
    /\ decoded[r].repository_owner = << >>
    /\ decoded[r].repository # << >>

(***************************************************************************)
(* C8.  A request whose header is absent, does not start with "Bearer ",   *)
(* or carries a token that is not of three segments is rejected with       *)
(* status 400 as MalformedToken, and neither the key request nor the       *)
(* verification is started for it.                                         *)
(***************************************************************************)
C8_Case(r) ==
  /\ pc[r] \notin {"Idle", "Received"}
  /\ authHeader[r] \notin WellFormedHeaders

C8_MalformedToken ==
  \A r \in Reqs :
    C8_Case(r) =>
      /\ pc[r] = "Rejected"
      /\ response[r].status = 400
      /\ Kind(response[r]) = "MalformedToken"
      /\ CallsOf(r, "getSigningKey") = {}
      /\ verifyErr[r] = "pending"

C8_Witness ==
  \E r \in Reqs :
    /\ C8_Case(r)
    /\ authHeader[r] = Present(BearerPrefix \o Token(MaxSegs))

C10_EveryRequestAnswered ==
  \A r \in Reqs : (pc[r] = "Received") ~> (pc[r] \in Terminal)

(***************************************************************************)
(* Vocabulary of the properties of the policy module.                      *)
(***************************************************************************)
\* c's load did the event ("cacheHit", "cacheMiss", "readFile", "validate",
\* "assign")
Did(c, event) == \E i \in DOMAIN loadLog[c] : loadLog[c][i] = event

Doers(event) == {c \in Callers : Did(c, event)}

\* a getEffectivePermissions call has returned after a successful load
EffectiveOn == effective.returned /\ effective.config # Null

\* the policy has an entry under the key
HasEntry(policy, key) == key \in DOMAIN policy.repositories

\* the permission map of the policy's entry under the key, empty without one
EntryPerms(policy, key) ==
  IF HasEntry(policy, key) THEN policy.repositories[key].permissions ELSE EmptyPerms

\* C11: while callers load concurrently from an empty cache, at most one of
\* them reads and validates the document and the cache is assigned at most
\* once.
C11_SingleColdLoad ==
  /\ Cardinality(Doers("readFile")) <= 1
  /\ Cardinality(Doers("validate")) <= 1
  /\ Cardinality(Doers("assign")) <= 1

\* C12: for an (owner, repo) with neither an owner/* nor an owner/repo entry,
\* a call without a requested map returns exactly default.permissions without
\* its none-valued entries.
C12_DefaultOnly ==
  ( /\ EffectiveOn
    /\ ~effective.requestedPermissions.given
    /\ ~HasEntry(effective.config, OrgWildcard(effective.owner))
    /\ ~HasEntry(effective.config, RepoPath(effective.owner, effective.repo)) )
  => LET defaultPerms == effective.config.default.permissions IN
     /\ effective.result.ok
     /\ DOMAIN effective.result.perms =
          {k \in DOMAIN defaultPerms : defaultPerms[k] # "none"}
     /\ \A k \in DOMAIN effective.result.perms :
          effective.result.perms[k] = defaultPerms[k]

C12_Witness ==
  /\ EffectiveOn
  /\ ~effective.requestedPermissions.given
  /\ ~HasEntry(effective.config, OrgWildcard(effective.owner))
  /\ ~HasEntry(effective.config, RepoPath(effective.owner, effective.repo))
  /\ effective.config.repositories # NoRepositories
  /\ \E k \in DOMAIN effective.config.default.permissions :
       effective.config.default.permissions[k] = "none"
  /\ effective.result.ok

\* C13: with an owner/repo entry, every key of that entry has the entry's
\* level, every other key has the owner/* entry's level if that entry has the
\* key and else the default's level; the call without a requested map returns
\* these levels for the keys whose level is not none.
C13_LayeredPerKey ==
  ( /\ EffectiveOn
    /\ ~effective.requestedPermissions.given
    /\ HasEntry(effective.config, RepoPath(effective.owner, effective.repo)) )
  => LET exact == EntryPerms(effective.config,
                             RepoPath(effective.owner, effective.repo))
         wildcard == EntryPerms(effective.config, OrgWildcard(effective.owner))
         defaultPerms == effective.config.default.permissions
         keys == DOMAIN exact \cup DOMAIN wildcard \cup DOMAIN defaultPerms
         Level(k) == IF k \in DOMAIN exact THEN exact[k]
                     ELSE IF k \in DOMAIN wildcard THEN wildcard[k]
                     ELSE defaultPerms[k]
     IN /\ effective.result.ok
        /\ DOMAIN effective.result.perms = {k \in keys : Level(k) # "none"}
        /\ \A k \in DOMAIN effective.result.perms :
             effective.result.perms[k] = Level(k)

\* the three layers disagree on a key of the repository's entry, and the
\* owner/* entry gives a key the repository's entry lacks
C13_Witness ==
  /\ EffectiveOn
  /\ ~effective.requestedPermissions.given
  /\ HasEntry(effective.config, RepoPath(effective.owner, effective.repo))
  /\ LET exact == EntryPerms(effective.config,
                             RepoPath(effective.owner, effective.repo))
         wildcard == EntryPerms(effective.config, OrgWildcard(effective.owner))
         defaultPerms == effective.config.default.permissions
     IN /\ \E k \in DOMAIN exact \cap DOMAIN wildcard \cap DOMAIN defaultPerms :
             exact[k] # wildcard[k] /\ wildcard[k] # defaultPerms[k]
        /\ \E k \in (DOMAIN wildcard \cap DOMAIN defaultPerms) \ DOMAIN exact :
             wildcard[k] # defaultPerms[k]
        /\ DOMAIN defaultPerms \ (DOMAIN exact \cup DOMAIN wildcard) # {}
  /\ effective.result.ok

\* a getEffectivePermissions call with a requested map has returned after a
\* successful load
RequestedCall == EffectiveOn /\ effective.requestedPermissions.given

Entries == effective.requestedPermissions.entries

\* the ceiling's level for a permission of the returned call, "absent" without
\* an entry
CeilingLevel(perm) ==
  LET ceiling == CeilingPermissions(effective.config, effective.owner, effective.repo)
  IN IF perm \in DOMAIN ceiling THEN ceiling[perm] ELSE "absent"

\* the i-th requested entry passes the four checks
Accepted(i) ==
  /\ Entries[i][1] \in VALID_PERMISSIONS
  /\ Entries[i][2] \in VALID_ACCESS_LEVELS
  /\ CeilingLevel(Entries[i][1]) \notin {"absent", "none"}
  /\ ~(Entries[i][2] = "write" /\ CeilingLevel(Entries[i][1]) = "read")

\* every entry before the i-th is accepted
FirstToFail(i) == \A j \in 1..(i - 1) : Accepted(j)

\* the i-th entry names a valid permission at a valid level, and the ceiling
\* has no entry for it or has none
NotInCeiling(i) ==
  /\ Entries[i][1] \in VALID_PERMISSIONS
  /\ Entries[i][2] \in VALID_ACCESS_LEVELS
  /\ CeilingLevel(Entries[i][1]) \in {"absent", "none"}

WriteOverRead(i) == Entries[i][2] = "write" /\ CeilingLevel(Entries[i][1]) = "read"

ReadUnderWrite(i) == Entries[i][2] = "read" /\ CeilingLevel(Entries[i][1]) = "write"

PermissionNotAllowed == "Permission is not allowed for this repository"
WriteNotAllowed == "Write access is not allowed for this repository"

\* C14 as stated: a requested map naming a valid permission whose ceiling is
\* absent or none fails with PermissionNotAllowed, whichever entries it holds.
C14_AnyEntryNotAllowed ==
  RequestedCall =>
    \A i \in DOMAIN Entries :
      NotInCeiling(i) =>
        ~effective.result.ok /\ effective.result.error = PermissionNotAllowed

\* C14: a requested map naming a valid permission whose ceiling is absent or
\* none always fails, whatever level is requested for it; the error is
\* PermissionNotAllowed when every entry before that one is accepted.
C14_PermissionNotAllowed ==
  RequestedCall =>
    \A i \in DOMAIN Entries :
      NotInCeiling(i) =>
        /\ ~effective.result.ok
        /\ FirstToFail(i) => effective.result.error = PermissionNotAllowed

C14_Witness ==
  /\ RequestedCall
  /\ \E i \in DOMAIN Entries :
       i > 1 /\ NotInCeiling(i) /\ FirstToFail(i)
  /\ effective.result.error = PermissionNotAllowed

\* C15 as stated: a requested map asking write for a permission whose ceiling
\* is read fails with WriteNotAllowed, whichever entries it holds.
C15_AnyWriteOverRead ==
  RequestedCall =>
    \A i \in DOMAIN Entries :
      WriteOverRead(i) =>
        ~effective.result.ok /\ effective.result.error = WriteNotAllowed

\* C15: a requested map asking write for a permission whose ceiling is read
\* always fails, so no map granting write on it is returned; the error is
\* WriteNotAllowed when every entry before that one is accepted.
C15_WriteNotAllowed ==
  RequestedCall =>
    \A i \in DOMAIN Entries :
      WriteOverRead(i) =>
        /\ ~effective.result.ok
        /\ effective.result.perms = EmptyPerms
        /\ FirstToFail(i) => effective.result.error = WriteNotAllowed

C15_Witness ==
  /\ RequestedCall
  /\ \E i \in DOMAIN Entries :
       i > 1 /\ WriteOverRead(i) /\ FirstToFail(i)
  /\ effective.result.error = WriteNotAllowed

\* C16 as stated: a requested map asking read for a permission whose ceiling
\* is write succeeds, whichever entries it holds.
C16_ReadAlwaysSucceeds ==
  RequestedCall =>
    \A i \in DOMAIN Entries :
      ReadUnderWrite(i) =>
        effective.result.ok /\ effective.result.perms[Entries[i][1]] = "read"

\* C16: an entry asking read for a permission whose ceiling is write is
\* accepted: the call succeeds exactly when every other entry is accepted, and
\* the returned map then holds read for that permission.
C16_ReadUnderWrite ==
  RequestedCall =>
    \A i \in DOMAIN Entries :
      ReadUnderWrite(i) =>
        /\ effective.result.ok <=> \A j \in DOMAIN Entries \ {i} : Accepted(j)
        /\ effective.result.ok => effective.result.perms[Entries[i][1]] = "read"

C16_Witness ==
  /\ RequestedCall
  /\ Len(Entries) > 1
  /\ \E i \in DOMAIN Entries : ReadUnderWrite(i)
  /\ effective.result.ok

\* C17: an accepted requested map is returned as it is: the returned map has
\* exactly the requested keys, each at its requested level.
C17_ExactlyRequested ==
  (RequestedCall /\ effective.result.ok) =>
    /\ DOMAIN effective.result.perms = {Entries[i][1] : i \in DOMAIN Entries}
    /\ \A i \in DOMAIN Entries :
         effective.result.perms[Entries[i][1]] = Entries[i][2]

\* an accepted map that leaves out a permission the ceiling allows
C17_Witness ==
  /\ RequestedCall
  /\ effective.result.ok
  /\ Entries # << >>
  /\ \E perm \in VALID_PERMISSIONS :
       /\ CeilingLevel(perm) \in {"read", "write"}
       /\ perm \notin {Entries[i][1] : i \in DOMAIN Entries}

\* c's loadPermissionsConfig() has settled
Settled(c) == callPc[c] \in {"Loaded", "Returned"}

\* a permission map holds names of the enumeration and levels read, write, none
WellFormedMap(permissions) ==
  \A perm \in DOMAIN permissions :
    perm \in VALID_PERMISSIONS /\ permissions[perm] \in VALID_ACCESS_LEVELS

\* a document defines default.permissions, every repository entry defines its
\* permissions, and every permission map is well formed
WellFormed(document) ==
  /\ "default" \in DOMAIN document
  /\ "permissions" \in DOMAIN document.default
  /\ WellFormedMap(document.default.permissions)
  /\ \A key \in DOMAIN document.repositories :
       /\ "permissions" \in DOMAIN document.repositories[key]
       /\ WellFormedMap(document.repositories[key].permissions)

\* C18: a load called after a load has succeeded settles at once with a result
\* equal to the earlier one, and neither reads nor validates the document nor
\* assigns the cache.
C18_Memoized ==
  [][\A c \in Callers :
       ( /\ callPc[c] = "Idle"
         /\ callPc'[c] # "Idle"
         /\ \E d \in Callers : loaded[d].state = "ok" )
       => /\ callPc'[c] = "Loaded"
          /\ \A d \in Callers : loaded[d].state = "ok" => loaded'[c] = loaded[d]
          /\ \A i \in DOMAIN loadLog'[c] :
               loadLog'[c][i] \notin {"readFile", "validate", "assign"}]_vars

\* a load that found the cache filled by another caller's load
C18_Witness ==
  \E c, d \in Callers :
    /\ c # d
    /\ Did(d, "assign")
    /\ loaded[d].state = "ok"
    /\ loadLog[c] = << "cacheHit" >>
    /\ loaded[c] = loaded[d]

\* C19: when the document breaks a validation rule, every load of it reads and
\* validates it and returns an error, the cache stays empty, and a load called
\* after a failed one starts reading the document again.
C19_FailureNotCached ==
  /\ [](~WellFormed(permissionsFile) =>
          /\ configCache = Null
          /\ \A c \in Callers :
               Settled(c) =>
                 /\ loaded[c].state = "error"
                 /\ Did(c, "readFile")
                 /\ Did(c, "validate")
                 /\ ~Did(c, "assign"))
  /\ [][\A c \in Callers :
          ( /\ callPc[c] = "Idle"
            /\ callPc'[c] # "Idle"
            /\ \E d \in Callers : loaded[d].state = "error" )
          => callPc'[c] = "AwaitReadFile"]_vars

\* two loads of a document with a rule broken inside a repository entry have
\* failed
C19_Witness ==
  /\ "default" \in DOMAIN permissionsFile
  /\ "permissions" \in DOMAIN permissionsFile.default
  /\ WellFormedMap(permissionsFile.default.permissions)
  /\ ~WellFormed(permissionsFile)
  /\ configCache = Null
  /\ \E c, d \in Callers :
       /\ c # d
       /\ loaded[c].state = "error"
       /\ loaded[d].state = "error"
       /\ Did(c, "validate")
       /\ Did(d, "validate")

\* C20: whenever the cache is populated, the cached document defines
\* default.permissions, every repository entry defines its permissions, every
\* permission name is in the enumeration and every level is read, write or
\* none.
C20_CachedPolicyValid == configCache # Null => WellFormed(configCache)

C20_Witness ==
  /\ configCache # Null
  /\ DOMAIN configCache.repositories # {}
  /\ \E c \in Callers : Did(c, "assign")

(***************************************************************************)
(* Further properties of the issuance endpoint.                            *)
(***************************************************************************)
\* the positions of a listing whose installation is the owner's, letter case
\* aside
Matches(installations, owner) ==
  {k \in DOMAIN installations :
     ToLowerCase(installations[k].account.login) = ToLowerCase(owner)}

\* C21: of the installations a listing returned, the request uses the first
\* whose login equals the owner letter case aside; it is rejected as
\* InstallationNotFound exactly when the listing holds no such installation.
C21_FirstMatchingInstallation ==
  \A r \in Reqs :
    /\ \A i \in CallsOf(r, "listInstallations") :
         calls[r][i].result.state = "ok" =>
           LET installations == calls[r][i].result.data
               matches == Matches(installations, decoded[r].repository_owner)
           IN IF matches = {}
              THEN pc[r] = "Rejected" /\ Kind(response[r]) = "InstallationNotFound"
              ELSE /\ installation[r] =
                        installations[CHOOSE k \in matches : \A j \in matches : k <= j]
                   /\ Kind(response[r]) # "InstallationNotFound"
    /\ Kind(response[r]) = "InstallationNotFound" =>
         \E i \in CallsOf(r, "listInstallations") :
           /\ calls[r][i].result.state = "ok"
           /\ Matches(calls[r][i].result.data, decoded[r].repository_owner) = {}

\* a listing with two installations of the owner, the first under a login in
\* another letter case
C21_Witness ==
  \E r \in Reqs :
    \E i \in CallsOf(r, "listInstallations") :
      /\ calls[r][i].result.state = "ok"
      /\ Cardinality(Matches(calls[r][i].result.data, decoded[r].repository_owner)) = 2
      /\ installation[r].account.login # decoded[r].repository_owner
      /\ installation[r].id = 2
      /\ pc[r] = "Issued"

\* the installation-token request of r returned without error
MintReturned(r, i) ==
  /\ calls[r][i].op = "createInstallationToken"
  /\ calls[r][i].result.state = "ok"

\* C22: when the installation-token request returns without error but
\* without a token, the request is rejected with status 500 as MintFailed;
\* no 200 response carries an empty token.
C22_MintFailed ==
  \A r \in Reqs :
    /\ \A i \in DOMAIN calls[r] :
         (MintReturned(r, i) /\ calls[r][i].result.data.token = "") =>
           /\ pc[r] = "Rejected"
           /\ response[r].status = 500
           /\ Kind(response[r]) = "MintFailed"
    /\ response[r].status = 200 => response[r].token # ""

C22_Witness ==
  \E r \in Reqs :
    /\ \E i \in DOMAIN calls[r] :
         MintReturned(r, i) /\ calls[r][i].result.data.token = ""
    /\ response[r].status = 500

\* C23: a 200 response carries exactly token, expires_at and installation_id
\* (with its status): the token and the expiry its own installation-token
\* request returned, and the id of the installation found for its owner in
\* its own listing.
C23_IssuedBody ==
  \A r \in Reqs :
    response[r].status = 200 =>
      /\ DOMAIN response[r] = {"status", "token", "expires_at", "installation_id"}
      /\ \E i \in DOMAIN calls[r] :
           /\ MintReturned(r, i)
           /\ response[r].token = calls[r][i].result.data.token
           /\ response[r].expires_at = calls[r][i].result.data.expiresAt
           /\ calls[r][i].installationId = response[r].installation_id
      /\ \E i \in CallsOf(r, "listInstallations") :
           /\ calls[r][i].result.state = "ok"
           /\ \E k \in Matches(calls[r][i].result.data, decoded[r].repository_owner) :
                calls[r][i].result.data[k].id = response[r].installation_id

C23_Witness ==
  \E r \in Reqs :
    /\ response[r].status = 200
    /\ response[r].token = "ghs_token"
    /\ response[r].installation_id = 1
    /\ decoded[r].repository_owner = octo

\* C24: every error response (400, 403, 500) carries both a kind (the error
\* member) and a detail string (the details member).  The response to a token
\* without repository information carries the claims instead of details.
C24_ErrorsCarryKindAndDetail ==
  \A r \in Reqs :
    response[r].status \in {400, 403, 500} =>
      /\ "error" \in DOMAIN response[r]
      /\ "details" \in DOMAIN response[r]

\* the result of the call of op that r made, Pending when it made none
ResultOf(r, op) ==
  IF CallsOf(r, op) = {} THEN Pending
  ELSE calls[r][CHOOSE i \in CallsOf(r, op) : TRUE].result

\* the first installation of listed whose login is owner, letter case aside
FirstMatch(listed, owner) ==
  listed[CHOOSE k \in Matches(listed, owner) :
           \A j \in Matches(listed, owner) : k <= j]

\* the response r gets when it runs alone: what its own header, its own
\* verification and the results of its own outbound calls determine
AloneResponse(r) ==
  LET extracted == extractAndDecodeToken(authHeader[r])
      listed == ResultOf(r, "listInstallations")
      looked == ResultOf(r, "getRepo")
      minted == ResultOf(r, "createInstallationToken")
  IN
  IF ~extracted.ok THEN DecodeFailedResponse(extracted.error)
  ELSE IF verifyErr[r] # "null" THEN VerificationFailedResponse(verifyErr[r])
  ELSE IF decoded[r].repository = << >> \/ decoded[r].repository_owner = << >>
    THEN MissingClaimsResponse(decoded[r])
  ELSE IF listed.state = "error" THEN GenerateFailedResponse(listed.error.message)
  ELSE IF Matches(listed.data, decoded[r].repository_owner) = {}
    THEN GenerateFailedResponse("No installation found for owner")
  ELSE IF looked.state = "error" THEN GenerateFailedResponse(RepoCatchMessage(looked.error))
  ELSE IF minted.state = "error" THEN GenerateFailedResponse(RepoCatchMessage(minted.error))
  ELSE IF minted.data.token = ""
    THEN GenerateFailedResponse("Failed to generate installation token")
  ELSE IssuedResponse(minted.data, FirstMatch(listed.data, decoded[r].repository_owner))

\* C27: requests handled at the same time do not see each other.  In every
\* interleaving, the installation a request uses is the one found in its own
\* listing (a request that uses one has made a listing call of its own), its
\* repository lookup and its token request name that installation, and the
\* response it gets is the one its own inputs determine, as if it ran alone.
C27_Isolation ==
  \A r \in Concurrent :
    /\ installation[r] # NoInstallation =>
         /\ Cardinality(CallsOf(r, "listInstallations")) = 1
         /\ ResultOf(r, "listInstallations").state = "ok"
         /\ Matches(ResultOf(r, "listInstallations").data,
                    decoded[r].repository_owner) # {}
         /\ installation[r] = FirstMatch(ResultOf(r, "listInstallations").data,
                                         decoded[r].repository_owner)
    /\ \A i \in CallsOf(r, "getRepo") \cup CallsOf(r, "createInstallationToken") :
         /\ installation[r] # NoInstallation
         /\ calls[r][i].installationId = installation[r].id
    /\ pc[r] \in Terminal => response[r] = AloneResponse(r)
    /\ pc[r] \notin Terminal => response[r] = NoResponse

\* two requests in flight for different owners, each past its own listing
C27_Witness ==
  /\ pc[1] = "AwaitRepo"
  /\ pc[2] = "AwaitToken"
  /\ decoded[1].repository_owner # decoded[2].repository_owner
  /\ installation[1].id # installation[2].id
  /\ installation[1] # NoInstallation
  /\ installation[2] # NoInstallation

\* the JSON texts {"value":"<token>"} and {"value": "<token>"}
Wrappings(token) ==
  { JsonObject(<< "v", "a", "l", "u", "e" >>, Quoted(DQ, token)),
    JsonObjectSpaced(<< "v", "a", "l", "u", "e" >>, Quoted(DQ, token)) }

\* C26: a bearer value that wraps a token as the JSON object {"value": token}
\* is handled as the token sent directly: the extraction yields the same
\* compact token, or fails with the same error.  The code cuts the header at
\* its spaces before it parses the JSON text.
C26_WrappedAsRaw ==
  \A r \in Reqs :
    \A k \in 0..MaxSegs :
      \A wrapped \in Wrappings(Token(k)) :
        (pc[r] \notin {"Idle", "Received"}
           /\ authHeader[r] = Present(BearerPrefix \o wrapped)) =>
          LET raw == extractAndDecodeToken(Present(BearerPrefix \o Token(k))) IN
          IF raw.ok
          THEN tokenPayload[r] = raw.token /\ Kind(response[r]) # "MalformedToken"
          ELSE response[r] = DecodeFailedResponse(raw.error)

\* C29: a request is rejected as RepositoryNotFound only when its repository
\* lookup returned 404: it has made no token request then.  The catch that
\* maps 404 encloses the token request as well.
C29_RepositoryNotFoundFromLookup ==
  \A r \in Reqs :
    Kind(response[r]) = "RepositoryNotFound" =>
      /\ CallsOf(r, "createInstallationToken") = {}
      /\ ResultOf(r, "getRepo").state = "error"
      /\ ResultOf(r, "getRepo").error.status = 404

\* the statuses of the endpoint's responses
Statuses == {200, 400, 403, 500}

\* C30: a request gets exactly one response.  A response is sent only to a
\* request that has none, it is one of the 200, 400, 403 and 500 responses,
\* sending it ends the handler (Issued or Rejected), the handler does not end
\* without sending one, and nothing changes for an ended request.
C30_OneResponse ==
  [][\A r \in Reqs :
       /\ response'[r] # response[r] =>
            /\ response[r] = NoResponse
            /\ pc[r] \notin Terminal
            /\ pc'[r] \in Terminal
            /\ response'[r].status \in Statuses
       /\ (pc[r] \notin Terminal /\ pc'[r] \in Terminal) =>
            response'[r] # response[r]
       /\ pc[r] \in Terminal =>
            /\ pc'[r] = pc[r]
            /\ response'[r] = response[r]
            /\ calls'[r] = calls[r]]_vars

\* a request that went through every await and was answered with the token
C30_Witness ==
  \E r \in Reqs :
    /\ pc[r] = "Issued"
    /\ response[r].status \in Statuses
    /\ Cardinality(CallsOf(r, "createInstallationToken")) = 1

CaseVariantKeys(policy, owner, repoName) ==
  LET exact == {owner \o << "/" >> \o repoName, owner \o << "/", "*" >>} IN
  {k \in DOMAIN policy.repositories :
     k \notin exact /\ \E e \in exact : ToLowerCase(k) = ToLowerCase(e)}

\* policy without the entries under keys
WithoutEntries(policy, keys) ==
  [policy EXCEPT !.repositories =
     [k \in DOMAIN policy.repositories \ keys |-> policy.repositories[k]]]

Rank(level) ==
  CASE level = "none" -> 0
    [] level = "read" -> 1
    [] level = "write" -> 2

\* C31: every map the operation returns is bounded by the ceiling: each
\* returned key has a ceiling level other than none, and its returned level
\* is at most the ceiling's; a map returned without a requested map holds no
\* none-valued entry.
C31_BoundedByCeiling ==
  (EffectiveOn /\ effective.result.ok) =>
    \A perm \in DOMAIN effective.result.perms :
      /\ CeilingLevel(perm) \in {"read", "write"}
      /\ Rank(effective.result.perms[perm]) <= Rank(CeilingLevel(perm))
      /\ ~effective.requestedPermissions.given => effective.result.perms[perm] # "none"

\* a returned map with a key below its ceiling, another at its ceiling
C31_Witness ==
  /\ RequestedCall
  /\ effective.result.ok
  /\ \E perm \in DOMAIN effective.result.perms :
       Rank(effective.result.perms[perm]) < Rank(CeilingLevel(perm))
  /\ \E perm \in DOMAIN effective.result.perms :
       effective.result.perms[perm] = CeilingLevel(perm)

\* the error of the first check the i-th requested entry fails, in the order
\* name, level, ceiling presence, write over read; "" when it passes all four
FirstCheckFailed(i) ==
  IF Entries[i][1] \notin VALID_PERMISSIONS THEN "Invalid permission requested"
  ELSE IF Entries[i][2] \notin VALID_ACCESS_LEVELS THEN "Invalid access level requested"
  ELSE IF CeilingLevel(Entries[i][1]) \in {"absent", "none"} THEN PermissionNotAllowed
  ELSE IF WriteOverRead(i) THEN WriteNotAllowed
  ELSE ""

\* the number of the four checks the i-th requested entry fails
ChecksFailed(i) ==
  Cardinality({n \in 1..4 :
    \/ n = 1 /\ Entries[i][1] \notin VALID_PERMISSIONS
    \/ n = 2 /\ Entries[i][2] \notin VALID_ACCESS_LEVELS
    \/ n = 3 /\ CeilingLevel(Entries[i][1]) \in {"absent", "none"}
    \/ n = 4 /\ WriteOverRead(i)})

\* C32: the validation of a requested map is all or nothing: when an entry
\* fails one of the four checks the call returns an error and no map,
\* whatever entries come before or after it, and it returns a map when none
\* fails; the error is that of the first check, in the order name, level,
\* ceiling presence, write over read, that the first failing entry fails.
C32_AllOrNothing ==
  RequestedCall =>
    /\ (\E i \in DOMAIN Entries : ~Accepted(i)) =>
         /\ ~effective.result.ok
         /\ effective.result.perms = EmptyPerms
         /\ effective.result.error # ""
    /\ (\A i \in DOMAIN Entries : Accepted(i)) => effective.result.ok
    /\ \A i \in DOMAIN Entries :
         (FirstToFail(i) /\ ~Accepted(i)) =>
           effective.result.error = FirstCheckFailed(i)

\* an entry that fails two checks, after an entry that is accepted
C32_Witness ==
  /\ RequestedCall
  /\ \E i \in DOMAIN Entries :
       /\ i > 1
       /\ FirstToFail(i)
       /\ ChecksFailed(i) > 1
       /\ effective.result.error = "Invalid access level requested"
  /\ effective.result.perms = EmptyPerms

====
